---- MODULE Spec2Model ----
(***************************************************************************)
(* Position lifecycle of the sniping pipeline: the Buy Executor            *)
(* (processPotentialBuy / executeSwap), the Redis position store and bus,  *)
(* and the Sell Manager (loadPositionsFromRedis, processSuccessfulBuy,     *)
(* checkPositionsAndSell, executeSellTransaction); before them the Token   *)
(* Filter (processNewPool / filterToken) with the token validation of      *)
(* shared/utils/token-security, and beside them the transaction helper     *)
(* (sendTransaction) with its retry loop; at the head of the pipeline the  *)
(* Pool Detector (services/lp-monitor) and the WebSocketManager of         *)
(* shared/utils/ws-manager.                                                *)
(*                                                                         *)
(* Every `await` on network or timer I/O is a step boundary.  A Redis      *)
(* command takes effect when it is issued (commands of one connection are  *)
(* served in order) or fails without effect and throws.                    *)
(***************************************************************************)
EXTENDS Integers, Naturals, Sequences, FiniteSets, TLC

\* ---------------------------------------------------------------- bounds
Mints == {"A", "B"}

\* the baseMints BuyCandidates are delivered for
CandidateMints == {"A"}

MaxBuys == 2

MaxTicks == 2

\* ------------------------------------------------------ program constants
SOL_MINT == "SOL"

OTHER_MINT == "USDC"

QuoteMints == {SOL_MINT, OTHER_MINT}

TAKE_PROFIT_PERCENTAGE == 150

STOP_LOSS_PERCENTAGE == 50

\* live executeSwap: const tokenAmount = 1000000 (placeholder)
LiveTokenAmount == 1000000

LAMPORTS_PER_SOL == 1000000000

\* config.BUY_AMOUNT_SOL, here with BUY_AMOUNT_SOL=1 in the environment
BUY_AMOUNT_SOL == 1

\* simulateTransaction: tokenAmount is random in 100000 .. 1000099999; one amount of them
DryTokenAmounts == {250000000}

\* simulateTransaction: estimatedPrice = amountInSol / (tokenAmount / LAMPORTS_PER_SOL)
EstimatedPrice(tokenAmount) == (BUY_AMOUNT_SOL * LAMPORTS_PER_SOL) \div tokenAmount

\* prices calculateTokenPrice can return (Math.random() drives them)
Prices == {3, 10}

\* JavaScript `undefined` for a numeric field
Undefined == -1

\* ioredis argument conversion of a number n, String(n): the string of a number
\* is the one-element sequence holding it, a hash field that is not there is <<>>
ToArg(v) == <<v>>

\* parseFloat(s || '0') and parseInt(s || '0', 10) on a field written by ToArg
ParseNum(s) == IF s = <<>> THEN 0 ELSE s[1]

\* String(boolean) as hset stores it, and `=== 'true'` as the load reads it
BoolToArg(b) == IF b THEN "true" ELSE "false"

ParseBool(s) == s = "true"

\* JavaScript truthiness of a numeric field
Truthy(v) == v # Undefined /\ v # 0

NoPosition == [absent |-> TRUE]

VARIABLES
    buyDRY_RUN,       \* config.DRY_RUN of the Buy Executor process
    sellDRY_RUN,      \* config.DRY_RUN of the Sell Manager process
    nextTx,           \* processPotentialBuy invocations so far
    swaps,            \* executeSwap invocations in progress, in start order
    successfulBuys,   \* messages published on SUCCESSFUL_BUYS
    store,            \* Redis hashes positions:<baseMint>
    smPhase,          \* Sell Manager: "keys" and "loading" (loadPositionsFromRedis), then "running"
    loadKeys,         \* positionKeys still to be read by the startup load
    persistedAtStart, \* the store as it was when the running load began
    activePositions,  \* the Map, as its entries in insertion order
    ticks,            \* checkPositionsAndSell invocations in progress, in start order
    pendingBuys,      \* processSuccessfulBuy invocations awaiting getConnection()
    successfulSells,  \* messages published on SUCCESSFUL_SELLS
    filter,           \* Token Filter: the processNewPool invocation and how it ended
    potentialBuys,    \* messages published on POTENTIAL_BUYS
    validation,       \* token-security: the validateToken call and its result
    tx,               \* transaction helper: the sendTransaction call and its result
    detector,         \* Pool Detector: wsConnection, wsSubscriptionId and the setup in progress
    listeners,        \* Pool Detector: the Connections with a registered log listener
    logs,             \* the log entry the upstream has sent last, and the handlers still at it
    newPools,         \* messages published on NEW_POOLS
    wsm,              \* WebSocketManager: its fields
    reconnects,       \* WebSocketManager: reconnect() invocations in progress, in start order
    logSubs,          \* WebSocketManager: this.subscriptions and the onLogs listeners there are
    subscriber        \* Sell Manager: the connection of redisSubscriber and its subscription

buyVars == <<nextTx, swaps, successfulBuys>>

cfgVars == <<buyDRY_RUN, sellDRY_RUN>>

busVars == <<subscriber>>

sellVars == <<smPhase, loadKeys, persistedAtStart, activePositions, ticks,
              pendingBuys, successfulSells>>

filterVars == <<filter, potentialBuys, validation>>

sendVars == <<tx>>

detectorVars == <<detector, listeners, logs, newPools>>

wsVars == <<wsm, reconnects, logSubs>>

upstreamVars == <<detectorVars, wsVars>>

vars == <<upstreamVars, sendVars, filterVars, busVars, cfgVars, buyVars, store, sellVars>>

\* a sequence without its i-th element
Remove(seq, i) == [j \in 1..(Len(seq) - 1) |-> IF j < i THEN seq[j] ELSE seq[j + 1]]

\* ----------------------------------------------------------- Buy Executor

\* an executeSwap invocation that has submitted its purchase (or started to
\* simulate it) and awaits the confirmation
NewSwap(baseMint) ==
    [pc |-> "confirm", baseMint |-> baseMint, tokenAmount |-> 0, estimatedPrice |-> Undefined]

\* the position hash written with isDryRun: false whatever the mode
SwapPositionHashLiveFlag(sw) ==
    [buyPrice    |-> ToArg(IF Truthy(sw.estimatedPrice) THEN sw.estimatedPrice ELSE 0),
     tokenAmount |-> ToArg(sw.tokenAmount),
     isDryRun    |-> BoolToArg(FALSE)]

\* redisPublisher.hset(`positions:${baseMint}`, {...}) of executeSwap
SwapPositionHash(sw) ==
    [buyPrice    |-> ToArg(IF Truthy(sw.estimatedPrice) THEN sw.estimatedPrice ELSE 0),
     tokenAmount |-> ToArg(sw.tokenAmount),
     isDryRun    |-> BoolToArg(buyDRY_RUN)]

\* buyData published on SUCCESSFUL_BUYS
BuyData(sw) ==
    [baseMint       |-> sw.baseMint,
     tokenAmount    |-> sw.tokenAmount,
     estimatedPrice |-> sw.estimatedPrice,
     isDryRun       |-> buyDRY_RUN]

\* the live branch of executeSwap for the same fill: its buyData has no
\* estimatedPrice and isDryRun: false (lines 471-481), its hash buyPrice: 0 and
\* isDryRun: false (lines 489-497)
LiveBuyData(sw) ==
    [baseMint       |-> sw.baseMint,
     tokenAmount    |-> sw.tokenAmount,
     estimatedPrice |-> Undefined,
     isDryRun       |-> FALSE]

LiveHash(sw) ==
    [buyPrice    |-> ToArg(0),
     tokenAmount |-> ToArg(sw.tokenAmount),
     isDryRun    |-> BoolToArg(FALSE)]

\* processPotentialBuy without the quote check
processPotentialBuyAnyQuote(baseMint, quoteMint, sent) ==
    /\ nextTx < MaxBuys
    /\ nextTx' = nextTx + 1
    /\ swaps' = IF buyDRY_RUN \/ sent THEN Append(swaps, NewSwap(baseMint)) ELSE swaps
    /\ UNCHANGED <<sendVars, filterVars, upstreamVars, busVars, cfgVars, successfulBuys, store, sellVars>>

\* processPotentialBuy up to the first await of executeSwap that can fail or
\* succeed on the network: the quote check (a pair that is not a SOL pair is
\* skipped), then the real or simulated submission; an invocation that
\* submitted nothing has ended
processPotentialBuy(baseMint, quoteMint, sent) ==
    /\ nextTx < MaxBuys
    /\ nextTx' = nextTx + 1
    /\ swaps' = IF quoteMint = SOL_MINT /\ (buyDRY_RUN \/ sent)
                THEN Append(swaps, NewSwap(baseMint))
                ELSE swaps
    /\ UNCHANGED <<sendVars, filterVars, upstreamVars, busVars, cfgVars, successfulBuys, store, sellVars>>

\* executeSwap going on to publish without looking at the confirmation
SwapConfirmIgnoringError(s, ok, tokenAmount, published) ==
    /\ swaps[s].pc = "confirm"
    /\ tokenAmount \in (IF buyDRY_RUN THEN DryTokenAmounts ELSE {LiveTokenAmount})
    /\ LET sw == [swaps[s] EXCEPT
                    !.tokenAmount = tokenAmount,
                    !.estimatedPrice = IF buyDRY_RUN THEN EstimatedPrice(tokenAmount)
                                                     ELSE Undefined]
       IN IF published
          THEN /\ swaps' = [swaps EXCEPT ![s] = [sw EXCEPT !.pc = "hset"]]
               /\ successfulBuys' = successfulBuys \cup {BuyData(sw)}
          ELSE /\ swaps' = Remove(swaps, s)
               /\ UNCHANGED successfulBuys
    /\ UNCHANGED <<sendVars, filterVars, upstreamVars, busVars, cfgVars, nextTx, store, sellVars>>

\* the simulated confirmation delay elapses / confirmTransaction returns;
\* on success buyData is published, on failure the invocation ends
SwapConfirm(s, ok, tokenAmount, published) ==
    /\ swaps[s].pc = "confirm"
    /\ tokenAmount \in (IF buyDRY_RUN THEN DryTokenAmounts ELSE {LiveTokenAmount})
    /\ LET sw == [swaps[s] EXCEPT
                    !.tokenAmount = tokenAmount,
                    !.estimatedPrice = IF buyDRY_RUN THEN EstimatedPrice(tokenAmount)
                                                     ELSE Undefined]
       IN IF ok /\ published
          THEN /\ swaps' = [swaps EXCEPT ![s] = [sw EXCEPT !.pc = "hset"]]
               /\ successfulBuys' = successfulBuys \cup {BuyData(sw)}
          ELSE /\ swaps' = Remove(swaps, s)
               /\ UNCHANGED successfulBuys
    /\ UNCHANGED <<sendVars, filterVars, upstreamVars, busVars, cfgVars, nextTx, store, sellVars>>

\* the publish has returned: the position hash is written, or the hset throws;
\* either way the invocation ends
SwapHset(s, ok) ==
    /\ swaps[s].pc = "hset"
    /\ swaps' = Remove(swaps, s)
    /\ store' = IF ok
                THEN [store EXCEPT ![swaps[s].baseMint] = SwapPositionHash(swaps[s])]
                ELSE store
    /\ UNCHANGED <<sendVars, filterVars, upstreamVars, busVars, cfgVars, nextTx, successfulBuys, sellVars>>

\* ----------------------------------------------------------- Sell Manager
NoEntry == [baseMint |-> "", buyPrice |-> Undefined, tokenAmount |-> 0, isDryRun |-> FALSE]

\* a checkPositionsAndSell invocation that has just obtained its Map iterator
NewTick == [pc |-> "iter", idx |-> 0, position |-> NoEntry]

\* Map.has / Map.get by key
IndexOf(map, baseMint) ==
    IF \E i \in 1..Len(map) : map[i].baseMint = baseMint
    THEN CHOOSE i \in 1..Len(map) : map[i].baseMint = baseMint
    ELSE 0

\* Map.set: an existing key keeps its place in the iteration order, a new key goes last
MapSet(map, entry) ==
    LET i == IndexOf(map, entry.baseMint)
    IN IF i = 0 THEN Append(map, entry) ELSE [map EXCEPT ![i] = entry]

\* Map.delete
MapDelete(map, baseMint) ==
    LET i == IndexOf(map, baseMint)
    IN IF i = 0 THEN map ELSE Remove(map, i)

\* a live Map iterator that has passed idx entries keeps its place when an
\* entry before it is deleted
IterAfterDelete(map, baseMint, idx) ==
    LET i == IndexOf(map, baseMint)
    IN IF i # 0 /\ i <= idx THEN idx - 1 ELSE idx

\* the entry loadPositionsFromRedis builds from one hash (lines 92-100)
LoadedEntry(baseMint, hash) ==
    [baseMint    |-> baseMint,
     buyPrice    |-> ParseNum(hash.buyPrice),
     tokenAmount |-> ParseNum(hash.tokenAmount),
     isDryRun    |-> ParseBool(hash.isDryRun)]

\* the hash after processSuccessfulBuy's hset of {...position, isDryRun: 'true' | 'false'}:
\* hset writes the fields it is given, and a position whose buyPrice was never
\* assigned has no buyPrice key to write
PositionHash(position, old) ==
    [buyPrice    |-> IF position.buyPrice # Undefined THEN ToArg(position.buyPrice)
                     ELSE IF old = NoPosition THEN <<>> ELSE old.buyPrice,
     tokenAmount |-> ToArg(position.tokenAmount),
     isDryRun    |-> BoolToArg(position.isDryRun \/ sellDRY_RUN)]

NothingPersisted == [m \in Mints |-> NoPosition]

\* redisSubscriber as createSubscriber returns it when the module is loaded
\* (line 33): ioredis has begun to connect, nothing is subscribed
NewSubscriber == [status |-> "connecting", subscribed |-> FALSE]

\* the 'ready' handler that subscribes to SUCCESSFUL_BUYS is registered by
\* startSellManager once loadPositionsFromRedis has returned (lines 769-775)
ReadyHandlerRegistered == smPhase = "running"

\* the connection of redisSubscriber is established and ioredis emits 'ready':
\* the listeners registered by then are called, and the event is not kept for
\* a listener that is registered later
SubscriberReady ==
    /\ subscriber.status = "connecting"
    /\ subscriber' = [status |-> "ready", subscribed |-> ReadyHandlerRegistered]
    /\ UNCHANGED <<sendVars, filterVars, upstreamVars, cfgVars, buyVars, store, sellVars>>

\* the connection of redisSubscriber is lost: the server drops its
\* subscriptions, and ioredis connects again (retryStrategy, redis-helper.js:25-29)
SubscriberClosed ==
    /\ subscriber.status = "ready"
    /\ subscriber' = NewSubscriber
    /\ UNCHANGED <<sendVars, filterVars, upstreamVars, cfgVars, buyVars, store, sellVars>>

\* the process dies and is started again: startSellManager awaits
\* loadPositionsFromRedis, which issues keys('positions:*')
Restart ==
    /\ smPhase = "running"
    /\ activePositions' = <<>>
    /\ ticks' = <<>>
    /\ pendingBuys' = {}
    /\ persistedAtStart' = store
    /\ loadKeys' = {m \in Mints : store[m] # NoPosition}
    /\ smPhase' = "keys"
    /\ subscriber' = NewSubscriber
    /\ UNCHANGED <<sendVars, filterVars, upstreamVars, cfgVars, buyVars, store, successfulSells>>

\* the keys command returns (no keys: return) or throws (outer catch, line 113)
LoadKeys(ok) ==
    /\ smPhase = "keys"
    /\ IF ok /\ loadKeys # {}
       THEN /\ smPhase' = "loading"
            /\ UNCHANGED <<loadKeys, persistedAtStart>>
       ELSE /\ smPhase' = "running"
            /\ loadKeys' = {}
            /\ persistedAtStart' = NothingPersisted
    /\ UNCHANGED <<sendVars, filterVars, upstreamVars, busVars, cfgVars, buyVars, store, activePositions, ticks, pendingBuys,
                   successfulSells>>

\* one iteration of the load loop: hgetall, parse, activePositions.set;
\* a throwing hgetall is caught per key (line 107)
LoadPosition(key, ok) ==
    /\ smPhase = "loading"
    /\ key \in loadKeys
    /\ loadKeys' = loadKeys \ {key}
    /\ activePositions' =
         IF ok /\ store[key] # NoPosition
         THEN MapSet(activePositions, LoadedEntry(key, store[key]))
         ELSE activePositions
    /\ IF loadKeys' = {}
       THEN smPhase' = "running" /\ persistedAtStart' = NothingPersisted
       ELSE UNCHANGED <<smPhase, persistedAtStart>>
    /\ UNCHANGED <<sendVars, filterVars, upstreamVars, busVars, cfgVars, buyVars, store, ticks, pendingBuys, successfulSells>>

\* the price change test of evaluateSellConditions, in exact arithmetic:
\* ((price / buyPrice) - 1) * 100 >= takeProfit  or  <= -stopLoss
Triggered(price, buyPrice, takeProfit, stopLoss) ==
    \/ (price - buyPrice) * 100 >= takeProfit * buyPrice
    \/ (price - buyPrice) * 100 <= -(stopLoss * buyPrice)

evaluateSellConditions(price, buyPrice, takeProfit, stopLoss) ==
    IF ~Truthy(buyPrice)
    THEN FALSE
    ELSE Triggered(price, buyPrice, takeProfit, stopLoss)

shouldSell(price, position) ==
    evaluateSellConditions(price, position.buyPrice,
                           TAKE_PROFIT_PERCENTAGE, STOP_LOSS_PERCENTAGE)

\* the branch condition of calculateTokenPrice (line 137)
SimulatedPrice(isDryRun) == isDryRun \/ sellDRY_RUN

\* executeSellTransaction deciding on config.DRY_RUN alone
SimulatedSellByConfigOnly(position) == sellDRY_RUN

\* the branch condition of executeSellTransaction (line 365)
SimulatedSell(position) == position.isDryRun \/ sellDRY_RUN

\* a timer that is armed before loadPositionsFromRedis has returned
TickStartBeforeLoad ==
    /\ Len(ticks) < MaxTicks
    /\ Len(activePositions) > 0
    /\ ticks' = Append(ticks, NewTick)
    /\ UNCHANGED <<sendVars, filterVars, upstreamVars, busVars, cfgVars, buyVars, store, smPhase, loadKeys,
                   persistedAtStart, activePositions, pendingBuys, successfulSells>>

\* a timer that skips its tick while an earlier invocation has not returned
TickStartWhenIdle ==
    /\ smPhase = "running"
    /\ ticks = <<>>
    /\ Len(activePositions) > 0
    /\ ticks' = Append(ticks, NewTick)
    /\ UNCHANGED <<sendVars, filterVars, upstreamVars, busVars, cfgVars, buyVars, store, smPhase, loadKeys,
                   persistedAtStart, activePositions, pendingBuys, successfulSells>>

\* setInterval fires checkPositionsAndSell; it returns at once on an empty Map
TickStart ==
    /\ smPhase = "running"
    /\ Len(ticks) < MaxTicks
    /\ Len(activePositions) > 0
    /\ ticks' = Append(ticks, NewTick)
    /\ UNCHANGED <<sendVars, filterVars, upstreamVars, busVars, cfgVars, buyVars, store, smPhase, loadKeys, persistedAtStart,
                   activePositions, pendingBuys, successfulSells>>

\* the position a tick still refers to once the entry has been evaluated: the
\* sell and the clean-up read its baseMint and isDryRun
Selling(position) == [position EXCEPT !.buyPrice = Undefined, !.tokenAmount = 0]

\* what the loop body does once priceData is there: evaluate, and start the sell
AfterPrice(tk, price) ==
    IF shouldSell(price, tk.position)
    THEN [tk EXCEPT !.pc = IF SimulatedSell(tk.position) THEN "simSell" ELSE "liveSell",
                    !.position = Selling(tk.position)]
    ELSE [tk EXCEPT !.pc = "iter", !.position = NoEntry]

\* the loop takes the next entry; a simulated price is computed without I/O,
\* a live one awaits getConnection()
TickIter(t, price) ==
    /\ ticks[t].pc = "iter"
    /\ IF ticks[t].idx >= Len(activePositions)
       THEN ticks' = Remove(ticks, t)
       ELSE LET e == activePositions[ticks[t].idx + 1]
                tk == [NewTick EXCEPT !.idx = ticks[t].idx + 1, !.position = e]
            IN IF SimulatedPrice(e.isDryRun)
               THEN ticks' = [ticks EXCEPT ![t] = AfterPrice(tk, price)]
               ELSE ticks' = [ticks EXCEPT ![t] = [tk EXCEPT !.pc = "price"]]
    /\ UNCHANGED <<sendVars, filterVars, upstreamVars, busVars, cfgVars, buyVars, store, smPhase, loadKeys, persistedAtStart,
                   activePositions, pendingBuys, successfulSells>>

\* live calculateTokenPrice: getConnection() returns, or throws (null, skip)
TickPrice(t, ok, price) ==
    /\ ticks[t].pc = "price"
    /\ ticks' = [ticks EXCEPT ![t] =
         IF ok THEN AfterPrice(ticks[t], price)
         ELSE [ticks[t] EXCEPT !.pc = "iter", !.position = NoEntry]]
    /\ UNCHANGED <<sendVars, filterVars, upstreamVars, busVars, cfgVars, buyVars, store, smPhase, loadKeys, persistedAtStart,
                   activePositions, pendingBuys, successfulSells>>

\* the loop goes on to the next entry after the sell; the position of a failed
\* sell transaction stays on record until the next entry is taken
SellEnded(tk, result) ==
    [tk EXCEPT !.pc = "iter",
               !.position = IF result = "failed" THEN tk.position ELSE NoEntry]

\* the stages a tick is in while its sell is in flight or being cleaned up
SellPcs == {"simSell", "liveSell", "del", "incr"}

\* sellData published on SUCCESSFUL_SELLS: isDryRun is true from
\* simulateSellTransaction, false from the live branch
SellData(tk) == [baseMint |-> tk.position.baseMint, isDryRun |-> tk.pc = "simSell"]

\* executeSellTransaction publishing and cleaning up without looking at result.success
SellOutcomeIgnoringSuccess(t, ok, published) ==
    IF published
    THEN /\ successfulSells' = successfulSells \cup {SellData(ticks[t])}
         /\ ticks' = [ticks EXCEPT ![t].pc = "del"]
    ELSE /\ ticks' = [ticks EXCEPT ![t].pc = "iter", ![t].position = NoEntry]
         /\ UNCHANGED successfulSells

\* the outcome of the sell transaction (simulated: the delay elapsed and the
\* success-rate draw; live: send and confirm), then publish on SUCCESSFUL_SELLS
SellOutcome(t, ok, published) ==
    IF ~ok
    THEN /\ ticks' = [ticks EXCEPT ![t] = SellEnded(@, "failed")]
         /\ UNCHANGED successfulSells
    ELSE IF published
         THEN /\ successfulSells' = successfulSells \cup {SellData(ticks[t])}
              /\ ticks' = [ticks EXCEPT ![t].pc = "del"]
         ELSE /\ ticks' = [ticks EXCEPT ![t] = SellEnded(@, "error")]
              /\ UNCHANGED successfulSells

TickSimSell(t, ok, published) ==
    /\ ticks[t].pc = "simSell"
    /\ SellOutcome(t, ok, published)
    /\ UNCHANGED <<sendVars, filterVars, upstreamVars, busVars, cfgVars, buyVars, store, smPhase, loadKeys, persistedAtStart,
                   activePositions, pendingBuys>>

TickLiveSell(t, ok, published) ==
    /\ ticks[t].pc = "liveSell"
    /\ SellOutcome(t, ok, published)
    /\ UNCHANGED <<sendVars, filterVars, upstreamVars, busVars, cfgVars, buyVars, store, smPhase, loadKeys, persistedAtStart,
                   activePositions, pendingBuys>>

\* a del that throws when the key is not there
TickDelMissingThrows(t, ok) ==
    /\ ticks[t].pc = "del"
    /\ IF ok /\ store[ticks[t].position.baseMint] # NoPosition
       THEN /\ store' = [store EXCEPT ![ticks[t].position.baseMint] = NoPosition]
            /\ ticks' = [ticks EXCEPT ![t].pc = "incr"]
       ELSE /\ ticks' = [ticks EXCEPT ![t] = SellEnded(@, "error")]
            /\ UNCHANGED store
    /\ UNCHANGED <<sendVars, filterVars, upstreamVars, busVars, cfgVars, buyVars, smPhase, loadKeys, persistedAtStart,
                   activePositions, pendingBuys, successfulSells>>

\* redisClient.del(`positions:${baseMint}`)
TickDel(t, ok) ==
    /\ ticks[t].pc = "del"
    /\ IF ok
       THEN /\ store' = [store EXCEPT ![ticks[t].position.baseMint] = NoPosition]
            /\ ticks' = [ticks EXCEPT ![t].pc = "incr"]
       ELSE /\ ticks' = [ticks EXCEPT ![t] = SellEnded(@, "error")]
            /\ UNCHANGED store
    /\ UNCHANGED <<sendVars, filterVars, upstreamVars, busVars, cfgVars, buyVars, smPhase, loadKeys, persistedAtStart,
                   activePositions, pendingBuys, successfulSells>>

\* redisClient.incr('stats:sell_count'), the success result, and
\* activePositions.delete(baseMint) in checkPositionsAndSell
TickIncr(t, ok) ==
    /\ ticks[t].pc = "incr"
    /\ IF ok
       THEN LET m == ticks[t].position.baseMint
            IN /\ activePositions' = MapDelete(activePositions, m)
               /\ ticks' = [u \in DOMAIN ticks |->
                    LET moved == [ticks[u] EXCEPT
                                    !.idx = IterAfterDelete(activePositions, m, @)]
                    IN IF u = t THEN SellEnded(moved, "sold") ELSE moved]
       ELSE /\ ticks' = [ticks EXCEPT ![t] = SellEnded(@, "error")]
            /\ UNCHANGED activePositions
    /\ UNCHANGED <<sendVars, filterVars, upstreamVars, busVars, cfgVars, buyVars, store, smPhase, loadKeys, persistedAtStart,
                   pendingBuys, successfulSells>>

\* the position object processSuccessfulBuy builds (lines 711-719)
NewPosition(buyData, buyPrice) ==
    [baseMint    |-> buyData.baseMint,
     buyPrice    |-> buyPrice,
     tokenAmount |-> IF Truthy(buyData.tokenAmount) THEN buyData.tokenAmount ELSE 0,
     isDryRun    |-> buyData.isDryRun \/ sellDRY_RUN]

\* activePositions.set, then the hset that mirrors the position in Redis
AddPosition(position, stored) ==
    /\ activePositions' = MapSet(activePositions, position)
    /\ store' = IF stored
                THEN [store EXCEPT ![position.baseMint] = PositionHash(position, @)]
                ELSE store

\* processSuccessfulBuy once the message is parsed and has a baseMint
onSuccessfulBuy(buyData, price, stored) ==
    /\ IF Truthy(buyData.estimatedPrice)
       THEN /\ AddPosition(NewPosition(buyData, buyData.estimatedPrice), stored)
            /\ UNCHANGED pendingBuys
       ELSE IF IndexOf(activePositions, buyData.baseMint) = 0
            THEN \* calculateTokenPrice: 'No position data', null, buyPrice stays unset
                 /\ AddPosition(NewPosition(buyData, Undefined), stored)
                 /\ UNCHANGED pendingBuys
            ELSE IF SimulatedPrice(buyData.isDryRun \/ sellDRY_RUN)
                 THEN /\ AddPosition(NewPosition(buyData, price), stored)
                      /\ UNCHANGED pendingBuys
                 ELSE /\ pendingBuys' = pendingBuys \cup {buyData}
                      /\ UNCHANGED <<activePositions, store>>
    /\ UNCHANGED <<sendVars, filterVars, upstreamVars, busVars, cfgVars, buyVars, smPhase, loadKeys, persistedAtStart, ticks,
                   successfulSells>>

\* a message on SUCCESSFUL_BUYS is delivered (at least once, so any number of times)
processSuccessfulBuy(buyData, price, stored) ==
    /\ smPhase = "running"
    /\ buyData \in successfulBuys
    /\ onSuccessfulBuy(buyData, price, stored)

\* the 'message' listener of startSellManager: a message on SUCCESSFUL_BUYS
\* reaches processSuccessfulBuy through the subscription of redisSubscriber
onMessage(buyData, price, stored) ==
    /\ subscriber.subscribed
    /\ processSuccessfulBuy(buyData, price, stored)

\* messages on SUCCESSFUL_BUYS that are no buyData: one that JSON.parse rejects
\* or that has no baseMint (baseMint ""), and the object {"baseMint": m}
\* without any other field
UnknownPayloads ==
    [baseMint : {""} \cup CandidateMints, tokenAmount : {Undefined}, estimatedPrice : {Undefined},
     isDryRun : {FALSE}]

\* such a message is delivered: JSON.parse throws into the catch or the
\* baseMint check returns (lines 699-704), or the handler goes on
processUnknownPayload(payload, price, stored) ==
    /\ smPhase = "running"
    /\ IF payload.baseMint = ""
       THEN UNCHANGED vars
       ELSE onSuccessfulBuy(payload, price, stored)

\* SIGTERM: both intervals are cleared and quit() is called on both Redis
\* connections, so no tick starts and no message arrives any more; the exit
\* timer of 1000 ms is armed
Sigterm ==
    /\ smPhase = "running"
    /\ smPhase' = "stopping"
    /\ subscriber' = [status |-> "end", subscribed |-> FALSE]
    /\ UNCHANGED <<sendVars, filterVars, upstreamVars, cfgVars, buyVars, store, loadKeys,
                   persistedAtStart, activePositions, ticks, pendingBuys, successfulSells>>

\* the exit timer fires: process.exit(0) ends every invocation where it is
ProcessExit ==
    /\ smPhase = "stopping"
    /\ smPhase' = "exited"
    /\ activePositions' = <<>>
    /\ ticks' = <<>>
    /\ pendingBuys' = {}
    /\ UNCHANGED <<sendVars, filterVars, upstreamVars, busVars, cfgVars, buyVars, store, loadKeys,
                   persistedAtStart, successfulSells>>

\* getConnection() of the live calculateTokenPrice returns, or throws (null)
BuyPriceFetched(buyData, ok, price, stored) ==
    /\ buyData \in pendingBuys
    /\ pendingBuys' = pendingBuys \ {buyData}
    /\ AddPosition(NewPosition(buyData, IF ok THEN price ELSE Undefined), stored)
    /\ UNCHANGED <<sendVars, filterVars, upstreamVars, busVars, cfgVars, buyVars, smPhase, loadKeys, persistedAtStart, ticks,
                   successfulSells>>

\* --------------------------- shared/utils/token-security: the risk levels
\* what analyzeTokenRisk reads from the mint account: the authority bytes
\* ("none": all zero), the freeze flag and the decimals
MintAccounts ==
    [mintAuthority   : {"none", "some", "blacklisted"},
     freezeAuthority : BOOLEAN,
     decimals        : {5, 9}]

RiskFactors(data) ==
    (IF data.mintAuthority # "none" THEN {"mintAuthority"} ELSE {})
    \cup (IF data.freezeAuthority THEN {"freezeAuthority"} ELSE {})
    \cup (IF data.decimals < 6 THEN {"lowDecimals"} ELSE {})
    \cup (IF data.mintAuthority = "blacklisted" THEN {"blacklisted"} ELSE {})

\* the levels of one and of two risk factors taken for each other
RiskLevelSwapped(data) ==
    LET n == Cardinality(RiskFactors(data))
    IN IF n > 2 \/ data.mintAuthority = "blacklisted" THEN "extreme"
       ELSE IF n > 1 THEN "medium"
       ELSE IF n > 0 THEN "high"
       ELSE "low"

\* the overall risk level (lines 125-132)
RiskLevel(data) ==
    LET n == Cardinality(RiskFactors(data))
    IN IF n > 2 \/ data.mintAuthority = "blacklisted" THEN "extreme"
       ELSE IF n > 1 THEN "high"
       ELSE IF n > 0 THEN "medium"
       ELSE "low"

\* ----------------------------------------------------------- Token Filter
\* account addresses: "bad" stands for the strings that fail REGEX_PATTERNS.SOLANA_ADDRESS
\* or new PublicKey(), every other one is well-formed
BAD_ADDRESS == "bad"

LP_ADDRESS == "lp"

isValidSolanaAddress(address) == address # BAD_ADDRESS

KNOWN_TOKENS == {SOL_MINT, OTHER_MINT}

isKnownToken(mintAddress) == mintAddress \in KNOWN_TOKENS

MIN_POOL_SIZE_SOL == 1

\* LP balances connection.getBalance can return, in SOL
Balances == {0, 1, 5}

\* how an RPC read of an account can end
RpcOutcomes == {"throws", "missing", "account"}

PoolsDetected ==
    [baseMint  : {"A", OTHER_MINT, BAD_ADDRESS},
     quoteMint : {SOL_MINT, OTHER_MINT, BAD_ADDRESS},
     lpAddress : {LP_ADDRESS, BAD_ADDRESS}]

NoPool == [baseMint |-> "", quoteMint |-> "", lpAddress |-> ""]

\* riskLevel: what the risk classification makes of the mint account that
\* checkTokenSecurity has read ("": no account read)
IdleFilter == [pc |-> "idle", pool |-> NoPool, failed |-> FALSE, riskLevel |-> ""]

\* filterToken returned false, or the publish threw: nothing is forwarded
FilterEnded(pc, pool, failed) ==
    [pc |-> pc, pool |-> pool, failed |-> failed, riskLevel |-> filter.riskLevel]

\* checkTokenSecurity: valid unless the account is missing or the call throws
checkTokenSecurity(rpc) == rpc = "account"

\* checkPoolLiquidity on a SOL pair: valid when the balance read succeeds and is enough
checkPoolLiquidity(ok, solBalance) == ok /\ solBalance >= MIN_POOL_SIZE_SOL

\* filterToken going on to the security check whatever the first two predicates say
processNewPoolNoShortCircuit(pool) ==
    /\ filter.pc \in {"idle", "rejected", "error", "emitted"}
    /\ filter' = [IdleFilter EXCEPT !.pc = "security", !.pool = pool]
    /\ UNCHANGED <<potentialBuys, validation, sendVars, upstreamVars, busVars, cfgVars, buyVars, store, sellVars>>

\* processNewPool and filterToken up to the first await: address validation
\* and the known-token skip
processNewPool(pool) ==
    /\ filter.pc \in {"idle", "rejected", "error", "emitted"}
    /\ filter' =
         IF \/ ~isValidSolanaAddress(pool.baseMint)
            \/ ~isValidSolanaAddress(pool.quoteMint)
            \/ ~isValidSolanaAddress(pool.lpAddress)
            \/ isKnownToken(pool.baseMint)
         THEN [IdleFilter EXCEPT !.pc = "rejected", !.pool = pool]
         ELSE [IdleFilter EXCEPT !.pc = "security", !.pool = pool]
    /\ UNCHANGED <<potentialBuys, validation, sendVars, upstreamVars, busVars, cfgVars, buyVars, store, sellVars>>

\* checkTokenSecurity returns; a non-SOL pair passes checkPoolLiquidity without
\* any call, a SOL pair goes on to read the LP balance
FilterSecurity(rpc, data) ==
    /\ filter.pc = "security"
    /\ filter' =
         IF ~checkTokenSecurity(rpc)
         THEN FilterEnded("rejected", filter.pool, rpc = "throws")
         ELSE [filter EXCEPT !.pc = IF filter.pool.quoteMint = SOL_MINT
                                    THEN "liquidity" ELSE "metadata",
                             !.riskLevel = RiskLevel(data)]
    /\ UNCHANGED <<potentialBuys, validation, sendVars, upstreamVars, busVars, cfgVars, buyVars, store, sellVars>>

\* connection.getBalance returns or throws
FilterLiquidity(ok, solBalance) ==
    /\ filter.pc = "liquidity"
    /\ filter' =
         IF ~checkPoolLiquidity(ok, solBalance)
         THEN FilterEnded("rejected", filter.pool, ~ok)
         ELSE [filter EXCEPT !.pc = "metadata"]
    /\ UNCHANGED <<potentialBuys, validation, sendVars, upstreamVars, busVars, cfgVars, buyVars, store, sellVars>>

\* getTokenMetadata of filterToken: the metadata, or null on any error, is only logged
FilterMetadata(ok) ==
    /\ filter.pc = "metadata"
    /\ filter' = [filter EXCEPT !.pc = "publish"]
    /\ UNCHANGED <<potentialBuys, validation, sendVars, upstreamVars, busVars, cfgVars, buyVars, store, sellVars>>

\* getTokenMetadata of processNewPool, then the publish on POTENTIAL_BUYS
FilterPublish(ok, published) ==
    /\ filter.pc = "publish"
    /\ IF published
       THEN /\ potentialBuys' = potentialBuys \cup {filter.pool}
            /\ filter' = FilterEnded("emitted", filter.pool, filter.failed)
       ELSE /\ filter' = FilterEnded("error", filter.pool, filter.failed)
            /\ UNCHANGED potentialBuys
    /\ UNCHANGED <<validation, sendVars, upstreamVars, busVars, cfgVars, buyVars, store, sellVars>>

\* ---------------------------------------------- shared/utils/token-security
\* analyzeTokenRisk: its result for each way the account read can end
analyzeTokenRisk(mintAddress, rpc, data) ==
    IF ~isValidSolanaAddress(mintAddress)
    THEN [isRisky |-> TRUE, riskLevel |-> "unknown"]
    ELSE IF isKnownToken(mintAddress)
    THEN [isRisky |-> FALSE, riskLevel |-> "safe"]
    ELSE IF rpc = "throws"
    THEN [isRisky |-> TRUE, riskLevel |-> "unknown"]
    ELSE IF rpc = "missing"
    THEN [isRisky |-> TRUE, riskLevel |-> "extreme"]
    ELSE [isRisky |-> RiskLevel(data) # "low", riskLevel |-> RiskLevel(data)]

\* detectHoneypot: the token's risk read again, then the LP account
detectHoneypot(riskAssessment, lpRpc) ==
    IF riskAssessment.riskLevel \in {"extreme", "high"}
    THEN TRUE
    ELSE lpRpc # "account"

ValidationParams ==
    [mintAddress    : {"A", OTHER_MINT, BAD_ADDRESS},
     lpAddress      : {LP_ADDRESS, BAD_ADDRESS},
     allowRisky     : BOOLEAN,
     detectHoneypot : BOOLEAN]

NoParams == [mintAddress |-> "", lpAddress |-> "", allowRisky |-> FALSE,
             detectHoneypot |-> FALSE]

NoRisk == [isRisky |-> FALSE, riskLevel |-> ""]

IdleValidation == [pc |-> "idle", params |-> NoParams, riskAssessment |-> NoRisk,
                   failed |-> FALSE, isValid |-> FALSE]

\* the isValid of validateToken's result (lines 273-282)
finalIsValid(options, riskAssessment, isPotentialHoneypot) ==
    /\ \/ ~riskAssessment.isRisky
       \/ (options.allowRisky /\ riskAssessment.riskLevel # "extreme")
    /\ (~options.detectHoneypot \/ ~isPotentialHoneypot)

\* validateToken up to its first await: the address and known-token checks
validateToken(params) ==
    /\ validation.pc \in {"idle", "done"}
    /\ validation' =
         IF ~isValidSolanaAddress(params.mintAddress) \/ ~isValidSolanaAddress(params.lpAddress)
         THEN [IdleValidation EXCEPT !.pc = "done", !.params = params]
         ELSE IF isKnownToken(params.mintAddress)
         THEN [IdleValidation EXCEPT !.pc = "done", !.params = params, !.isValid = TRUE]
         ELSE [IdleValidation EXCEPT !.pc = "risk", !.params = params]
    /\ UNCHANGED <<filter, potentialBuys, sendVars, upstreamVars, busVars, cfgVars, buyVars, store, sellVars>>

\* analyzeTokenRisk returns its assessment
ValidateRisk(rpc, data) ==
    /\ validation.pc = "risk"
    /\ LET riskAssessment == analyzeTokenRisk(validation.params.mintAddress, rpc, data)
           checked == [validation EXCEPT !.riskAssessment = riskAssessment,
                                         !.failed = (rpc = "throws")]
       IN validation' =
            IF validation.params.detectHoneypot
            THEN [checked EXCEPT !.pc = "honeypot"]
            ELSE [checked EXCEPT !.pc = "done",
                                 !.isValid = finalIsValid(validation.params, riskAssessment, FALSE)]
    /\ UNCHANGED <<filter, potentialBuys, sendVars, upstreamVars, busVars, cfgVars, buyVars, store, sellVars>>

\* detectHoneypot returns
ValidateHoneypot(rpc, data, lpRpc) ==
    /\ validation.pc = "honeypot"
    /\ LET again == analyzeTokenRisk(validation.params.mintAddress, rpc, data)
       IN validation' =
            [validation EXCEPT !.pc = "done",
                               !.isValid = finalIsValid(validation.params,
                                                        validation.riskAssessment,
                                                        detectHoneypot(again, lpRpc))]
    /\ UNCHANGED <<filter, potentialBuys, sendVars, upstreamVars, busVars, cfgVars, buyVars, store, sellVars>>

\* ------------------------------------------- transaction helper (sendTransaction)
\* options.maxRetries as the callers can pass it: not given, or a number
MaxMaxRetries == 5

MaxRetriesOptions == {Undefined} \cup (0..MaxMaxRetries)

DEFAULT_MAX_RETRIES == 3

\* const maxRetries = options.maxRetries || 3
maxRetries(option) == IF Truthy(option) THEN option ELSE DEFAULT_MAX_RETRIES

\* error.message of a failed sendRawTransaction, as the set of phrases it contains
ErrorMessages ==
    {{"timeout"}, {"block height exceeded"}, {"rate limited"}, {"rate limited", "timeout"},
     {"Blockhash not found"}, {"insufficient funds"}}

NoError == {}

\* String.prototype.includes
includes(message, phrase) == phrase \in message

\* every send error taken as retryable
isRetryableAlways(message) == TRUE

isRetryable(message) ==
    \/ includes(message, "timeout")
    \/ includes(message, "block height exceeded")
    \/ includes(message, "rate limited")

BACKOFF_STEP_MS == 500

MAX_BACKOFF_MS == 2000

\* the same delay before every retry
delayConstant(retryCount) == BACKOFF_STEP_MS

\* const delay = Math.min(500 * retryCount, 2000)
delay(retryCount) ==
    IF BACKOFF_STEP_MS * retryCount < MAX_BACKOFF_MS
    THEN BACKOFF_STEP_MS * retryCount
    ELSE MAX_BACKOFF_MS

\* attempts counts the sendRawTransaction calls of the invocation, delay is
\* the last backoff it waited (0: none yet)
IdleTx == [pc |-> "idle", maxRetries |-> 0, retryCount |-> 0, attempts |-> 0,
           delay |-> 0, lastError |-> NoError, success |-> FALSE]

\* return { success: false, error } of sendTransaction
SendFailed(t) == [t EXCEPT !.pc = "done", !.success = FALSE]

\* the catch block retrying one more time than maxRetries allows
AfterSendErrorOneMore(t, message) ==
    IF ~isRetryable(message) \/ t.retryCount > t.maxRetries
    THEN SendFailed([t EXCEPT !.lastError = message])
    ELSE [t EXCEPT !.lastError = message,
                   !.retryCount = @ + 1,
                   !.delay = delay(t.retryCount + 1),
                   !.pc = "send"]

\* the catch block of the retry loop (lines 201-230): break, and the
\* `if (!signature)` return after the loop, or count the retry and wait
AfterSendError(t, message) ==
    IF ~isRetryable(message) \/ t.retryCount >= t.maxRetries
    THEN SendFailed([t EXCEPT !.lastError = message])
    ELSE [t EXCEPT !.lastError = message,
                   !.retryCount = @ + 1,
                   !.delay = delay(t.retryCount + 1),
                   !.pc = "wait"]

\* sendTransaction is called: options are read, then the optional simulation
\* and getLatestBlockhash are awaited
sendTransaction(option) ==
    /\ tx.pc \in {"idle", "done"}
    /\ tx' = [IdleTx EXCEPT !.pc = "prepare", !.maxRetries = maxRetries(option)]
    /\ UNCHANGED <<filterVars, upstreamVars, busVars, cfgVars, buyVars, store, sellVars>>

\* the simulation and getLatestBlockhash return: the transaction is signed and
\* the retry loop is entered; a failed simulation or a throw ends the call
SendPrepared(ok) ==
    /\ tx.pc = "prepare"
    /\ tx' = IF ok THEN [tx EXCEPT !.pc = "send"] ELSE SendFailed(tx)
    /\ UNCHANGED <<filterVars, upstreamVars, busVars, cfgVars, buyVars, store, sellVars>>

\* connection.sendRawTransaction returns a signature or throws
SendAttempt(sent, message) ==
    /\ tx.pc = "send"
    /\ LET tried == [tx EXCEPT !.attempts = @ + 1]
       IN tx' = IF sent
                THEN [tried EXCEPT !.pc = "confirm"]
                ELSE AfterSendError(tried, message)
    /\ UNCHANGED <<filterVars, upstreamVars, busVars, cfgVars, buyVars, store, sellVars>>

\* the backoff timer fires: `while (retryCount <= maxRetries)` is tested again
SendBackoff ==
    /\ tx.pc = "wait"
    /\ tx' = IF tx.retryCount <= tx.maxRetries
             THEN [tx EXCEPT !.pc = "send"]
             ELSE SendFailed(tx)
    /\ UNCHANGED <<filterVars, upstreamVars, busVars, cfgVars, buyVars, store, sellVars>>

\* how connection.confirmTransaction can end
Confirmations == {"ok", "err", "throws"}

\* confirmTransaction returns: success unless confirmation.value.err is set
\* or the call throws (outer catch)
SendConfirmed(confirmation) ==
    /\ tx.pc = "confirm"
    /\ tx' = [tx EXCEPT !.pc = "done", !.success = (confirmation = "ok")]
    /\ UNCHANGED <<filterVars, upstreamVars, busVars, cfgVars, buyVars, store, sellVars>>

\* ----------------------------------------------------------- Pool Detector
\* services/lp-monitor/src/index.js
MaxConnections == 2

MaxNewPools == 2

RAYDIUM_LP_V4_PROGRAM_ID == "raydium"

OTHER_PROGRAM == "other"

\* null: nothing was extracted
NoAddress == ""

UNKNOWN == "unknown"

\* new PublicKey(address) returns rather than throws
isPublicKey(address) == address \notin {NoAddress, UNKNOWN, BAD_ADDRESS}

\* the log notifications of the upstream: the first word of logMessages[0],
\* whether a line has 'Instruction: Initialize2', whether err is null, and what
\* follows 'base mint:', 'quote mint:' and 'pool address:' (NoAddress: no such line)
LogNotifications ==
    [programId   : {RAYDIUM_LP_V4_PROGRAM_ID, OTHER_PROGRAM},
     initialize2 : BOOLEAN,
     errIsNull   : BOOLEAN,
     baseMint    : {NoAddress, "A", BAD_ADDRESS},
     quoteMint   : {NoAddress, SOL_MINT},
     lpAddress   : {NoAddress, LP_ADDRESS}]

\* null of parseRaydiumLpLogs
NoPoolData ==
    [baseMint |-> NoAddress, quoteMint |-> NoAddress, lpAddress |-> NoAddress,
     detectionMethod |-> ""]

parseRaydiumLpLogs(log) ==
    IF ~log.initialize2
    THEN NoPoolData
    ELSE IF log.baseMint = NoAddress \/ log.quoteMint = NoAddress \/ log.lpAddress = NoAddress
    THEN IF log.errIsNull
         THEN [baseMint  |-> IF log.baseMint = NoAddress THEN UNKNOWN ELSE log.baseMint,
               quoteMint |-> IF log.quoteMint = NoAddress THEN UNKNOWN ELSE log.quoteMint,
               lpAddress |-> IF log.lpAddress = NoAddress THEN log.programId
                                                          ELSE log.lpAddress,
               detectionMethod |-> "partial"]
         ELSE NoPoolData
    ELSE IF isPublicKey(log.baseMint) /\ isPublicKey(log.quoteMint)
            /\ isPublicKey(log.lpAddress)
    THEN [baseMint |-> log.baseMint, quoteMint |-> log.quoteMint,
          lpAddress |-> log.lpAddress, detectionMethod |-> "log_parse"]
    ELSE NoPoolData

\* what handleLogNotification is about to publish (NoPoolData: nothing)
handleLogNotification(log) ==
    IF log.programId = RAYDIUM_LP_V4_PROGRAM_ID THEN parseRaydiumLpLogs(log) ELSE NoPoolData

\* the id onLogs returns for the first subscription of a fresh Connection:
\* @solana/web3.js numbers the subscriptions of a Connection from 0 (the
\* ^1.73.0 of build.sh) or from 1 (its earlier versions)
SubscriptionIds == {0, 1}

\* the module is loaded and startup() is about to be called: wsSubscriptionId
\* and wsConnection are null (Undefined and 0), no interval is set
StartingDetector ==
    [pc |-> "boot", wsConnection |-> 0, wsSubscriptionId |-> Undefined,
     started |-> FALSE, reconnectAttempt |-> 0]

NoLog == [poolData |-> NoPoolData, to |-> {}, published |-> 0]

\* setupLogSubscription from its await of getConnection() on: a new Connection,
\* onLogs on it, reconnectAttempt = 0, true; or the catch and false.  startup()
\* then sets the intervals, or arms its retry timer.  (The removeLogListener
\* before it needs a truthy wsSubscriptionId, and every caller finds it falsy;
\* a health check finds the one before it returned.)
setupLogSubscription(ok, id) ==
    /\ detector.pc \in {"startup", "health"}
    /\ IF ok
       THEN /\ Cardinality(listeners) < MaxConnections
            /\ detector' = [detector EXCEPT
                              !.pc = "idle",
                              !.wsConnection = Cardinality(listeners) + 1,
                              !.wsSubscriptionId = id,
                              !.reconnectAttempt = 0,
                              !.started = @ \/ detector.pc = "startup"]
            /\ listeners' = listeners \cup {Cardinality(listeners) + 1}
       ELSE /\ detector' = [detector EXCEPT
                              !.pc = IF detector.pc = "startup" THEN "retry" ELSE "idle"]
            /\ UNCHANGED listeners
    /\ UNCHANGED <<logs, newPools, wsVars, sendVars, filterVars, busVars, cfgVars, buyVars, store,
                   sellVars>>

\* startup() is called, at load or by its retry timer (setTimeout(startup, 5000)):
\* it calls setupLogSubscription, which awaits getConnection()
startup ==
    /\ detector.pc \in {"boot", "retry"}
    /\ detector' = [detector EXCEPT !.pc = "startup"]
    /\ UNCHANGED <<listeners, logs, newPools, wsVars, sendVars, filterVars, busVars, cfgVars, buyVars,
                   store, sellVars>>

\* the 30 s interval fires checkConnectionHealth: without a connection or with
\* a falsy subscription id it sets the subscription up, otherwise it passes
checkConnectionHealth ==
    /\ detector.started
    /\ detector.pc = "idle"
    /\ detector' = IF detector.wsConnection = 0 \/ ~Truthy(detector.wsSubscriptionId)
                   THEN [detector EXCEPT !.pc = "health"]
                   ELSE detector
    /\ UNCHANGED <<listeners, logs, newPools, wsVars, sendVars, filterVars, busVars, cfgVars, buyVars,
                   store, sellVars>>

\* the upstream sends a log entry: every Connection with a listener calls
\* handleLogNotification, which runs up to its await of the publish
LogEntry(log) ==
    /\ logs.to = {}
    /\ listeners # {}
    /\ Cardinality(newPools) < MaxNewPools
    /\ logs' = IF handleLogNotification(log) = NoPoolData
               THEN NoLog
               ELSE [poolData |-> handleLogNotification(log), to |-> listeners,
                     published |-> 0]
    /\ UNCHANGED <<detector, listeners, newPools, wsVars, sendVars, filterVars, busVars, cfgVars,
                   buyVars, store, sellVars>>

\* the publish on NEW_POOLS of one handler returns, or throws (logged)
LogPublished(c, ok) ==
    /\ c \in logs.to
    /\ logs' = [logs EXCEPT !.to = @ \ {c}, !.published = IF ok THEN @ + 1 ELSE @]
    /\ newPools' = IF ok THEN newPools \cup {logs.poolData} ELSE newPools
    /\ UNCHANGED <<detector, listeners, wsVars, sendVars, filterVars, busVars, cfgVars, buyVars,
                   store, sellVars>>

\* ------------------------------------------------------- WebSocketManager
\* shared/utils/ws-manager.js
MaxReconnects == 2

DEFAULT_MAX_RECONNECT_ATTEMPTS == 10

RECONNECT_BASE_MS == 1000

RECONNECT_CAP_MS == 30000

\* jitter = Math.random() * 0.5 + 0.75, in percent: 0.75 <= jitter < 1.25
JitterPercents == {75, 100, 124}

Min(a, b) == IF a < b THEN a ELSE b

baseDelay(reconnectAttempt) ==
    Min(RECONNECT_BASE_MS * 2 ^ (reconnectAttempt - 1), RECONNECT_CAP_MS)

\* delay = Math.floor(baseDelay * jitter)
reconnectDelay(reconnectAttempt, jitter) == (baseDelay(reconnectAttempt) * jitter) \div 100

\* the listeners counted up to MaxListeners, which stands for that many or more
MaxListeners == 3

\* after the constructor: this.subscriptions is empty.  subscriptions is the
\* size of that Map, onConnection the onLogs listeners registered on the
\* Connection this.connection refers to, onReplaced those on the Connections it
\* referred to before (nothing removes a listener but unsubscribe)
NoSubscriptions == [subscriptions |-> 0, onConnection |-> 0, onReplaced |-> 0]

\* this.connection = new Connection(...): the listeners stay with the old object
NewConnection(l) ==
    [l EXCEPT !.onConnection = 0,
              !.onReplaced = Min(l.onReplaced + l.onConnection, MaxListeners)]

\* subscribeToLogs on a connected manager: connection.onLogs and subscriptions.set
Subscribed(l) ==
    [l EXCEPT !.onConnection = Min(@ + 1, MaxListeners), !.subscriptions = @ + 1]

\* restoreSubscriptions: the entries are copied, the Map is cleared, and
\* subscribeToLogs is called for each entry (with one program subscribed, for
\* the one entry)
restoreSubscriptions(l) ==
    IF l.subscriptions = 0 THEN l ELSE Subscribed([l EXCEPT !.subscriptions = 0])

\* after the constructor: no connection, no health-check interval
NewWebSocketManager ==
    [connection |-> FALSE, isConnected |-> FALSE, reconnectAttempt |-> 0,
     healthCheck |-> FALSE, maxReconnectAttempts |-> DEFAULT_MAX_RECONNECT_ATTEMPTS]

\* connect() once getBlockHeight has returned
Connected(w) == [w EXCEPT !.connection = TRUE, !.isConnected = TRUE,
                          !.reconnectAttempt = 0, !.healthCheck = TRUE]

\* reconnect() up to its await of the backoff timer: the invocation that waits
\* (attempt and delay), or none when the attempts are used up
Reconnecting(w, jitter) ==
    LET n == w.reconnectAttempt + 1
    IN IF n > w.maxReconnectAttempts
       THEN <<>>
       ELSE <<[pc |-> "wait", attempt |-> n, delay |-> reconnectDelay(n, jitter)]>>

\* the owner calls subscribeToLogs for its program, which calls connect() while
\* the manager is not connected and throws when that fails
connect(ok) ==
    /\ ~wsm.healthCheck
    /\ wsm' = IF ok THEN Connected(wsm) ELSE [wsm EXCEPT !.connection = TRUE]
    /\ logSubs' = IF ok THEN Subscribed(NewConnection(logSubs)) ELSE NewConnection(logSubs)
    /\ UNCHANGED <<reconnects, detectorVars, sendVars, filterVars, busVars, cfgVars, buyVars, store,
                   sellVars>>

\* the interval fires checkHealth: getBlockHeight returns, or throws and
\* reconnect() is called
checkHealth(ok, jitter) ==
    /\ wsm.healthCheck
    /\ wsm.connection
    /\ IF ok
       THEN UNCHANGED <<wsm, reconnects>>
       ELSE /\ Len(reconnects) < MaxReconnects
            /\ wsm.reconnectAttempt <= wsm.maxReconnectAttempts
            /\ wsm' = [wsm EXCEPT !.isConnected = FALSE, !.reconnectAttempt = @ + 1]
            /\ reconnects' = reconnects \o Reconnecting(wsm, jitter)
    /\ UNCHANGED <<logSubs, detectorVars, sendVars, filterVars, busVars, cfgVars, buyVars, store, sellVars>>

\* the backoff timer of a reconnect() fires: connect() makes its new Connection
ReconnectTimer(r) ==
    /\ reconnects[r].pc = "wait"
    /\ reconnects' = [reconnects EXCEPT ![r].pc = "connect"]
    /\ wsm' = [wsm EXCEPT !.connection = TRUE]
    /\ logSubs' = NewConnection(logSubs)
    /\ UNCHANGED <<detectorVars, sendVars, filterVars, busVars, cfgVars, buyVars, store, sellVars>>

\* getBlockHeight of that connect() returns (the subscriptions are restored,
\* true) or throws: reconnect() calls itself
ReconnectConnected(r, ok, jitter) ==
    /\ reconnects[r].pc = "connect"
    /\ IF ok
       THEN /\ wsm' = Connected(wsm)
            /\ reconnects' = Remove(reconnects, r)
            /\ logSubs' = restoreSubscriptions(logSubs)
       ELSE /\ wsm' = [wsm EXCEPT !.isConnected = FALSE, !.reconnectAttempt = @ + 1]
            /\ reconnects' = Remove(reconnects, r) \o Reconnecting(wsm, jitter)
            /\ UNCHANGED logSubs
    /\ UNCHANGED <<detectorVars, sendVars, filterVars, busVars, cfgVars, buyVars, store, sellVars>>

\* the system
Init ==
    /\ buyDRY_RUN \in BOOLEAN
    /\ sellDRY_RUN \in BOOLEAN
    /\ nextTx = 0
    /\ swaps = <<>>
    /\ successfulBuys = {}
    /\ store = NothingPersisted
    /\ smPhase = "keys"
    /\ loadKeys = {}
    /\ persistedAtStart = NothingPersisted
    /\ activePositions = <<>>
    /\ ticks = <<>>
    /\ pendingBuys = {}
    /\ successfulSells = {}
    /\ filter = IdleFilter
    /\ potentialBuys = {}
    /\ validation = IdleValidation
    /\ tx = IdleTx
    /\ detector = StartingDetector
    /\ listeners = {}
    /\ logs = NoLog
    /\ newPools = {}
    /\ wsm = NewWebSocketManager
    /\ reconnects = <<>>
    /\ logSubs = NoSubscriptions
    /\ subscriber = NewSubscriber

Next ==
    \/ \E m \in CandidateMints, q \in QuoteMints, sent \in BOOLEAN :
          processPotentialBuy(m, q, sent)
    \/ \E s \in DOMAIN swaps, ok \in BOOLEAN, ta \in DryTokenAmounts \cup {LiveTokenAmount},
          pub \in BOOLEAN : SwapConfirm(s, ok, ta, pub)
    \/ \E s \in DOMAIN swaps, ok \in BOOLEAN : SwapHset(s, ok)
    \/ Restart
    \/ \E ok \in BOOLEAN : LoadKeys(ok)
    \/ \E key \in Mints, ok \in BOOLEAN : LoadPosition(key, ok)
    \/ TickStart
    \/ \E t \in DOMAIN ticks, p \in Prices : TickIter(t, p)
    \/ \E t \in DOMAIN ticks, ok \in BOOLEAN, p \in Prices : TickPrice(t, ok, p)
    \/ \E t \in DOMAIN ticks, ok \in BOOLEAN, pub \in BOOLEAN : TickSimSell(t, ok, pub)
    \/ \E t \in DOMAIN ticks, ok \in BOOLEAN, pub \in BOOLEAN : TickLiveSell(t, ok, pub)
    \/ \E t \in DOMAIN ticks, ok \in BOOLEAN : TickDel(t, ok)
    \/ \E t \in DOMAIN ticks, ok \in BOOLEAN : TickIncr(t, ok)
    \/ \E b \in successfulBuys, p \in Prices, st \in BOOLEAN : processSuccessfulBuy(b, p, st)
    \/ \E b \in pendingBuys, ok \in BOOLEAN, p \in Prices, st \in BOOLEAN :
          BuyPriceFetched(b, ok, p, st)

Spec == Init /\ [][Next]_vars

\* The deployment whose Buy Executor runs with DRY_RUN=true: every Position is
\* created with isDryRun=true, the Sell Manager runs with either setting.  The
\* live price fetch and the live sell are not part of it (C2_DryRunPurity says
\* that no state of it enables them).
InitDry == Init /\ buyDRY_RUN

NextDry ==
    \/ \E m \in CandidateMints, q \in QuoteMints, sent \in BOOLEAN :
          processPotentialBuy(m, q, sent)
    \/ \E s \in DOMAIN swaps, ok \in BOOLEAN, ta \in DryTokenAmounts, pub \in BOOLEAN :
          SwapConfirm(s, ok, ta, pub)
    \/ \E s \in DOMAIN swaps, ok \in BOOLEAN : SwapHset(s, ok)
    \/ Restart
    \/ \E ok \in BOOLEAN : LoadKeys(ok)
    \/ \E key \in Mints, ok \in BOOLEAN : LoadPosition(key, ok)
    \/ TickStart
    \/ \E t \in DOMAIN ticks, p \in Prices : TickIter(t, p)
    \/ \E t \in DOMAIN ticks, ok \in BOOLEAN, pub \in BOOLEAN : TickSimSell(t, ok, pub)
    \/ \E t \in DOMAIN ticks, ok \in BOOLEAN : TickDel(t, ok)
    \/ \E t \in DOMAIN ticks, ok \in BOOLEAN : TickIncr(t, ok)
    \/ \E b \in successfulBuys, p \in Prices, st \in BOOLEAN : processSuccessfulBuy(b, p, st)

SpecDry == InitDry /\ [][NextDry]_vars

\* The Token Filter and the token validation of shared/utils/token-security.
\* They share no state with the later stages: what they hand over is the
\* BuyCandidate, and Spec delivers every sequence of BuyCandidates.
NextFilter ==
    \/ \E pool \in PoolsDetected : processNewPool(pool)
    \/ \E rpc \in RpcOutcomes, data \in MintAccounts : FilterSecurity(rpc, data)
    \/ \E ok \in BOOLEAN, b \in Balances : FilterLiquidity(ok, b)
    \/ \E ok \in BOOLEAN : FilterMetadata(ok)
    \/ \E ok \in BOOLEAN, pub \in BOOLEAN : FilterPublish(ok, pub)
    \/ \E params \in ValidationParams : validateToken(params)
    \/ \E rpc \in RpcOutcomes, data \in MintAccounts : ValidateRisk(rpc, data)
    \/ \E rpc \in RpcOutcomes, data \in MintAccounts, lpRpc \in RpcOutcomes :
          ValidateHoneypot(rpc, data, lpRpc)

SpecFilter == Init /\ [][NextFilter]_vars

\* The transaction helper alone: every sequence of sendTransaction calls, each
\* with every way its RPC calls can end.
SendStep ==
    \/ \E ok \in BOOLEAN : SendPrepared(ok)
    \/ \E sent \in BOOLEAN, message \in ErrorMessages : SendAttempt(sent, message)
    \/ SendBackoff
    \/ \E confirmation \in Confirmations : SendConfirmed(confirmation)

NextSend ==
    \/ \E option \in MaxRetriesOptions : sendTransaction(option)
    \/ SendStep

\* Every awaited RPC call returns or throws, and every timer fires.
SpecSendFair == Init /\ [][NextSend]_vars /\ WF_vars(SendStep)

\* The submission side alone: the Buy Executor with every sequence of
\* BuyCandidates delivered to it, and the transaction helper.
NextBuy ==
    \/ \E m \in CandidateMints, q \in QuoteMints, sent \in BOOLEAN :
          processPotentialBuy(m, q, sent)
    \/ \E s \in DOMAIN swaps, ok \in BOOLEAN, ta \in DryTokenAmounts \cup {LiveTokenAmount},
          pub \in BOOLEAN : SwapConfirm(s, ok, ta, pub)
    \/ \E s \in DOMAIN swaps, ok \in BOOLEAN : SwapHset(s, ok)
    \/ NextSend

SpecBuy == Init /\ [][NextBuy]_vars

\* The Sell Manager started over a store in which an earlier dry run of the
\* Buy Executor has left a Position for every mint: the startup load, the
\* ticks and their simulated sells, and restarts.
PersistedDryRun(baseMint, tokenAmount) ==
    SwapPositionHash([NewSwap(baseMint) EXCEPT
                        !.tokenAmount = tokenAmount,
                        !.estimatedPrice = EstimatedPrice(tokenAmount)])

InitRestart ==
    /\ buyDRY_RUN = TRUE
    /\ sellDRY_RUN \in BOOLEAN
    /\ nextTx = 0
    /\ swaps = <<>>
    /\ successfulBuys = {}
    /\ \E ta \in DryTokenAmounts : store = [m \in Mints |-> PersistedDryRun(m, ta)]
    /\ smPhase = "keys"
    /\ loadKeys = Mints
    /\ persistedAtStart = store
    /\ activePositions = <<>>
    /\ ticks = <<>>
    /\ pendingBuys = {}
    /\ successfulSells = {}
    /\ filter = IdleFilter
    /\ potentialBuys = {}
    /\ validation = IdleValidation
    /\ tx = IdleTx
    /\ detector = StartingDetector
    /\ listeners = {}
    /\ logs = NoLog
    /\ newPools = {}
    /\ wsm = NewWebSocketManager
    /\ reconnects = <<>>
    /\ logSubs = NoSubscriptions
    /\ subscriber = NewSubscriber

NextRestart ==
    \/ Restart
    \/ \E ok \in BOOLEAN : LoadKeys(ok)
    \/ \E key \in Mints, ok \in BOOLEAN : LoadPosition(key, ok)
    \/ TickStart
    \/ \E t \in DOMAIN ticks, p \in Prices : TickIter(t, p)
    \/ \E t \in DOMAIN ticks, ok \in BOOLEAN, pub \in BOOLEAN : TickSimSell(t, ok, pub)
    \/ \E t \in DOMAIN ticks, ok \in BOOLEAN : TickDel(t, ok)
    \/ \E t \in DOMAIN ticks, ok \in BOOLEAN : TickIncr(t, ok)

SpecRestart == InitRestart /\ [][NextRestart]_vars

\* The Pool Detector alone, with every sequence of log entries the upstream
\* can send to the listeners it has.
NextDetector ==
    \/ \E ok \in BOOLEAN, id \in SubscriptionIds : setupLogSubscription(ok, id)
    \/ startup
    \/ checkConnectionHealth
    \/ \E log \in LogNotifications : LogEntry(log)
    \/ \E c \in logs.to, ok \in BOOLEAN : LogPublished(c, ok)

SpecDetector == Init /\ [][NextDetector]_vars

\* The WebSocketManager alone, with every way its connections can go.
NextWs ==
    \/ \E ok \in BOOLEAN : connect(ok)
    \/ \E ok \in BOOLEAN, jitter \in JitterPercents : checkHealth(ok, jitter)
    \/ \E r \in DOMAIN reconnects : ReconnectTimer(r)
    \/ \E r \in DOMAIN reconnects, ok \in BOOLEAN, jitter \in JitterPercents :
          ReconnectConnected(r, ok, jitter)

SpecWs == Init /\ [][NextWs]_vars

\* The Sell Manager of SpecRestart with the shutdown signal.
NextShutdown ==
    \/ NextRestart
    \/ Sigterm
    \/ ProcessExit

SpecShutdown == InitRestart /\ [][NextShutdown]_vars

\* The Sell Manager with messages on SUCCESSFUL_BUYS that no Buy Executor has
\* published.
NextPayloads ==
    \/ \E ok \in BOOLEAN : LoadKeys(ok)
    \/ \E payload \in UnknownPayloads, p \in Prices, st \in BOOLEAN :
          processUnknownPayload(payload, p, st)
    \/ \E b \in pendingBuys, ok \in BOOLEAN, p \in Prices, st \in BOOLEAN :
          BuyPriceFetched(b, ok, p, st)
    \/ TickStart
    \/ \E t \in DOMAIN ticks, p \in Prices : TickIter(t, p)
    \/ \E t \in DOMAIN ticks, ok \in BOOLEAN, p \in Prices : TickPrice(t, ok, p)
    \/ \E t \in DOMAIN ticks, ok \in BOOLEAN, pub \in BOOLEAN : TickSimSell(t, ok, pub)
    \/ \E t \in DOMAIN ticks, ok \in BOOLEAN, pub \in BOOLEAN : TickLiveSell(t, ok, pub)
    \/ \E t \in DOMAIN ticks, ok \in BOOLEAN : TickDel(t, ok)
    \/ \E t \in DOMAIN ticks, ok \in BOOLEAN : TickIncr(t, ok)

SpecPayloads == Init /\ [][NextPayloads]_vars

\* The start of the Sell Manager beside a dry-run Buy Executor: the store
\* holds a Position of an earlier run, the subscriber connects while the
\* startup load runs, and PositionOpened messages reach the Sell Manager
\* through its subscription only.  (Spec and SpecDry deliver every published
\* message while the Sell Manager runs, as the at-least-once bus does for a
\* subscriber that is subscribed.)
InitStartup ==
    /\ buyDRY_RUN = TRUE
    /\ sellDRY_RUN \in BOOLEAN
    /\ nextTx = 0
    /\ swaps = <<>>
    /\ successfulBuys = {}
    /\ \E ta \in DryTokenAmounts :
          store = [m \in Mints |-> IF m \in CandidateMints THEN NoPosition
                                   ELSE PersistedDryRun(m, ta)]
    /\ smPhase = "keys"
    /\ loadKeys = Mints \ CandidateMints
    /\ persistedAtStart = store
    /\ activePositions = <<>>
    /\ ticks = <<>>
    /\ pendingBuys = {}
    /\ successfulSells = {}
    /\ filter = IdleFilter
    /\ potentialBuys = {}
    /\ validation = IdleValidation
    /\ tx = IdleTx
    /\ detector = StartingDetector
    /\ listeners = {}
    /\ logs = NoLog
    /\ newPools = {}
    /\ wsm = NewWebSocketManager
    /\ reconnects = <<>>
    /\ logSubs = NoSubscriptions
    /\ subscriber = NewSubscriber

NextStartup ==
    \/ SubscriberReady
    \/ SubscriberClosed
    \/ \E ok \in BOOLEAN : LoadKeys(ok)
    \/ \E key \in Mints, ok \in BOOLEAN : LoadPosition(key, ok)
    \/ \E m \in CandidateMints, q \in QuoteMints, sent \in BOOLEAN :
          processPotentialBuy(m, q, sent)
    \/ \E s \in DOMAIN swaps, ok \in BOOLEAN, ta \in DryTokenAmounts, pub \in BOOLEAN :
          SwapConfirm(s, ok, ta, pub)
    \/ \E s \in DOMAIN swaps, ok \in BOOLEAN : SwapHset(s, ok)
    \/ \E b \in successfulBuys, p \in Prices, st \in BOOLEAN : onMessage(b, p, st)

\* Every connection attempt of ioredis ends (it retries without limit), every
\* Redis command of the load returns or throws, and the bus delivers what it
\* has to a subscriber that is subscribed again and again.
SpecStartupFair ==
    /\ InitStartup
    /\ [][NextStartup]_vars
    /\ WF_vars(SubscriberReady)
    /\ WF_vars(\E ok \in BOOLEAN : LoadKeys(ok))
    /\ WF_vars(\E key \in Mints, ok \in BOOLEAN : LoadPosition(key, ok))
    /\ SF_vars(\E b \in successfulBuys, p \in Prices, st \in BOOLEAN : onMessage(b, p, st))

\* ================================================================ claims

\* C1 (at-most-one-position): a BuyCandidate for a baseMint that has a Position
\* in the store, or a purchase in progress, is a no-op: it submits no purchase,
\* real or simulated.
C1_AtMostOnePurchase ==
    [][\A m \in CandidateMints, q \in QuoteMints, sent \in BOOLEAN :
          (/\ \/ store[m] # NoPosition
              \/ \E s \in DOMAIN swaps : swaps[s].baseMint = m
           /\ processPotentialBuy(m, q, sent))
             => swaps' = swaps
      ]_vars

\* C2 (dry-run purity): no live price fetch and no live sell is in flight for
\* a Position whose isDryRun is true, in a tick or in processSuccessfulBuy,
\* whatever the Sell Manager's own DRY_RUN is.
C2_DryRunPurity ==
    /\ \A t \in DOMAIN ticks :
          ticks[t].pc \in {"price", "liveSell"} => ~ticks[t].position.isDryRun
    /\ \A b \in pendingBuys : ~b.isDryRun

\* the sell of an isDryRun Position is simulated while the Sell Manager is live
C2_Witness ==
    \E t \in DOMAIN ticks :
        ticks[t].pc = "simSell" /\ ticks[t].position.isDryRun /\ ~sellDRY_RUN

\* C3 (double-close impossible): while the sell of a Position is in flight or
\* being cleaned up, no other tick is selling the same baseMint.
C3_NoSecondSell ==
    \A t, u \in DOMAIN ticks :
        (t # u /\ ticks[t].pc \in SellPcs /\ ticks[u].pc \in SellPcs)
            => ticks[t].position.baseMint # ticks[u].position.baseMint

\* C4 (sell trigger correctness): a tick that observes price p for a Position
\* with buyPrice P attempts a sell exactly when p >= P*(1+T/100) or
\* p <= P*(1-S/100), here with both sides multiplied by 100.
C4_SellTrigger ==
    [][\A t \in DOMAIN ticks, p \in Prices :
          LET attempts == ticks'[t].pc \in {"simSell", "liveSell"}
              due(P) == \/ p * 100 >= P * (100 + TAKE_PROFIT_PERCENTAGE)
                        \/ p * 100 <= P * (100 - STOP_LOSS_PERCENTAGE)
          IN /\ (/\ ticks[t].pc = "price"
                 /\ ticks[t].position.buyPrice # Undefined
                 /\ TickPrice(t, TRUE, p))
                   => (attempts <=> due(ticks[t].position.buyPrice))
             /\ (/\ ticks[t].pc = "iter"
                 /\ ticks[t].idx < Len(activePositions)
                 /\ SimulatedPrice(activePositions[ticks[t].idx + 1].isDryRun)
                 /\ activePositions[ticks[t].idx + 1].buyPrice # Undefined
                 /\ TickIter(t, p))
                   => (attempts <=> due(activePositions[ticks[t].idx + 1].buyPrice))
      ]_vars

\* C5 (restart recovery): when the startup load completes, and nothing was
\* written to the store while it ran, the working set holds exactly the
\* Positions persisted when the process started, each with the buyPrice,
\* tokenAmount and isDryRun of its record.
C5_RestartRecovery ==
    [][(smPhase # "running" /\ smPhase' = "running" /\ store = persistedAtStart)
          => \A m \in Mints :
                LET i == IndexOf(activePositions', m)
                IN IF persistedAtStart[m] = NoPosition
                   THEN i = 0
                   ELSE /\ i # 0
                        /\ activePositions'[i] = LoadedEntry(m, persistedAtStart[m])
      ]_vars

\* C7 (isDryRun fixed at creation): while a Position exists its isDryRun flag
\* does not change in the store or in the working set, and the two agree.
C7_IsDryRunFixed ==
    [][\A m \in Mints :
          LET i == IndexOf(activePositions, m)
              j == IndexOf(activePositions', m)
          IN /\ (store[m] # NoPosition /\ store'[m] # NoPosition)
                   => store'[m].isDryRun = store[m].isDryRun
             /\ (i # 0 /\ j # 0)
                   => activePositions'[j].isDryRun = activePositions[i].isDryRun
             /\ (store'[m] # NoPosition /\ j # 0)
                   => activePositions'[j].isDryRun = ParseBool(store'[m].isDryRun)
      ]_vars

\* C8 (buyPrice immutable): while a Position exists its buyPrice does not
\* change, in the store (read as a number) or in the working set.
C8_BuyPriceImmutable ==
    [][\A m \in Mints :
          LET i == IndexOf(activePositions, m)
              j == IndexOf(activePositions', m)
          IN /\ (store[m] # NoPosition /\ store'[m] # NoPosition)
                   => ParseNum(store'[m].buyPrice) = ParseNum(store[m].buyPrice)
             /\ (i # 0 /\ j # 0)
                   => activePositions'[j].buyPrice = activePositions[i].buyPrice
      ]_vars

\* C9 (sell failure leaves the Position open): the step in which a sell
\* transaction fails changes neither the store nor the working set, publishes
\* no PositionClosed, and leaves the tick at the loop, past the entry it has
\* just tried, so that the entry is not tried again before the next tick.
C9_SellFailureLeavesOpen ==
    [][\A t \in DOMAIN ticks, pub \in BOOLEAN :
          (TickSimSell(t, FALSE, pub) \/ TickLiveSell(t, FALSE, pub))
             => /\ store' = store
                /\ activePositions' = activePositions
                /\ successfulSells' = successfulSells
                /\ ticks'[t].pc = "iter"
                /\ ticks'[t].idx = ticks[t].idx
      ]_vars

\* a sell has failed, and its Position is still in the store and in the working set
C9_Witness ==
    \E t \in DOMAIN ticks :
        /\ ticks[t].pc = "iter"
        /\ ticks[t].position # NoEntry
        /\ store[ticks[t].position.baseMint] # NoPosition
        /\ IndexOf(activePositions, ticks[t].position.baseMint) # 0

\* C10 (sell success closes completely): when the handling of a confirmed
\* sell ends, the Position record is gone from the store and the baseMint from
\* the working set.
C10_ClosedCompletely ==
    [][\A t \in DOMAIN ticks :
          (/\ ticks[t].pc \in {"del", "incr"}
           /\ (TickDel(t, FALSE) \/ TickIncr(t, TRUE) \/ TickIncr(t, FALSE)))
             => /\ store'[ticks[t].position.baseMint] = NoPosition
                /\ IndexOf(activePositions', ticks[t].position.baseMint) = 0
      ]_vars

\* C6 (filter fail-closed): a candidate whose check failed on its external call
\* is never forwarded by the Token Filter, and never valid for validateToken,
\* whatever the validation options are.
C6_FailClosed ==
    /\ (filter.pc \in {"liquidity", "metadata", "publish", "emitted"} => ~filter.failed)
    /\ (validation.pc = "done" /\ validation.failed) => ~validation.isValid

\* C11 (re-delivery of PositionOpened is idempotent): a PositionOpened for a
\* baseMint the working set already holds leaves the working set and the
\* store as they were, in the handler and in its price fetch.
C11_RedeliveryNoOp ==
    [][/\ \A b \in successfulBuys, p \in Prices, st \in BOOLEAN :
            (IndexOf(activePositions, b.baseMint) # 0 /\ processSuccessfulBuy(b, p, st))
               => (activePositions' = activePositions /\ store' = store)
       /\ \A b \in pendingBuys, ok \in BOOLEAN, p \in Prices, st \in BOOLEAN :
            (IndexOf(activePositions, b.baseMint) # 0 /\ BuyPriceFetched(b, ok, p, st))
               => (activePositions' = activePositions /\ store' = store)
      ]_vars

\* C12 (idempotent close): the del and the Map delete of a close whose
\* baseMint has no record in the store and no entry in the working set change
\* neither of them and throw nothing: the close goes on to its next stage and
\* the tick to the rest of its loop, in a Sell Manager that keeps running.
C12_IdempotentClose ==
    [][\A t \in DOMAIN ticks :
          LET m == ticks[t].position.baseMint
              closed == store[m] = NoPosition /\ IndexOf(activePositions, m) = 0
          IN /\ (ticks[t].pc = "del" /\ closed /\ TickDel(t, TRUE))
                   => /\ store' = store
                      /\ activePositions' = activePositions
                      /\ smPhase' = "running"
                      /\ Len(ticks') = Len(ticks)
                      /\ ticks'[t].pc = "incr"
             /\ (ticks[t].pc = "incr" /\ closed /\ TickIncr(t, TRUE))
                   => /\ store' = store
                      /\ activePositions' = activePositions
                      /\ smPhase' = "running"
                      /\ Len(ticks') = Len(ticks)
                      /\ ticks'[t] = [ticks[t] EXCEPT !.pc = "iter", !.position = NoEntry]
      ]_vars

\* a close has passed its del, and its baseMint is neither in the store nor in
\* the working set
C12_Witness ==
    \E t \in DOMAIN ticks :
        /\ ticks[t].pc = "incr"
        /\ store[ticks[t].position.baseMint] = NoPosition
        /\ IndexOf(activePositions, ticks[t].position.baseMint) = 0

\* C13 (load before the first tick): no position-evaluation tick is in
\* progress while the startup load of the Positions has not returned.
C13_NoTickBeforeLoad == ticks # <<>> => smPhase = "running"

\* the load has returned with every persisted Position, and a tick is at one of them
C13_Witness ==
    /\ smPhase = "running"
    /\ Len(activePositions) = Cardinality(Mints)
    /\ \E t \in DOMAIN ticks : ticks[t].position # NoEntry

\* C14 (a BuyCandidate iff every predicate passes): a PoolDetected whose
\* handling ended with a BuyCandidate has three valid addresses, a baseMint
\* that is no known token and a mint whose risk is not extreme, and the
\* BuyCandidate carries its baseMint, quoteMint and lpAddress; one that was
\* rejected has published none.
C14_EmittedIffPasses ==
    /\ filter.pc = "emitted"
          => /\ isValidSolanaAddress(filter.pool.baseMint)
             /\ isValidSolanaAddress(filter.pool.quoteMint)
             /\ isValidSolanaAddress(filter.pool.lpAddress)
             /\ ~isKnownToken(filter.pool.baseMint)
             /\ filter.riskLevel # "extreme"
             /\ filter.pool \in potentialBuys
    /\ \A pool \in potentialBuys :
          /\ isValidSolanaAddress(pool.baseMint)
          /\ isValidSolanaAddress(pool.quoteMint)
          /\ isValidSolanaAddress(pool.lpAddress)
          /\ ~isKnownToken(pool.baseMint)

\* C15 (ordered predicates, short-circuit): the security check is reached only
\* by a PoolDetected with valid addresses and a baseMint that is no known
\* token, the balance read only from a security check that passed, the
\* metadata read only from the check before it, and once a predicate has
\* failed the next thing the filter does is to take the next PoolDetected.
C15_OrderedShortCircuit ==
    [][/\ (filter'.pc = "security" /\ filter' # filter)
             => /\ filter.pc \in {"idle", "rejected", "error", "emitted"}
                /\ isValidSolanaAddress(filter'.pool.baseMint)
                /\ isValidSolanaAddress(filter'.pool.quoteMint)
                /\ isValidSolanaAddress(filter'.pool.lpAddress)
                /\ ~isKnownToken(filter'.pool.baseMint)
       /\ (filter'.pc = "liquidity" /\ filter' # filter)
             => /\ filter.pc = "security"
                /\ filter'.pool = filter.pool
                /\ filter'.riskLevel # ""
       /\ (filter'.pc = "metadata" /\ filter' # filter)
             => /\ filter'.pool = filter.pool
                /\ \/ filter.pc = "liquidity"
                   \/ filter.pc = "security" /\ filter.pool.quoteMint # SOL_MINT
       /\ (filter.pc = "rejected" /\ filter' # filter)
             => \E pool \in PoolsDetected : processNewPool(pool)
      ]_vars

\* a SOL pair with valid addresses was rejected by the security check, and its
\* balance was never read
C15_Witness ==
    /\ filter.pc = "rejected"
    /\ isValidSolanaAddress(filter.pool.baseMint)
    /\ isValidSolanaAddress(filter.pool.lpAddress)
    /\ ~isKnownToken(filter.pool.baseMint)
    /\ filter.pool.quoteMint = SOL_MINT
    /\ filter.riskLevel = ""

\* C16 (a confirmed error is terminal): the step in which a purchase is
\* confirmed with an error writes no Position, publishes no PositionOpened
\* and ends the invocation without another submission; in the transaction
\* helper it ends the call with a failure and no further send attempt.
C16_ConfirmedErrorTerminal ==
    [][/\ \A s \in DOMAIN swaps, ta \in DryTokenAmounts \cup {LiveTokenAmount},
             pub \in BOOLEAN :
            SwapConfirm(s, FALSE, ta, pub)
               => /\ store' = store
                  /\ successfulBuys' = successfulBuys
                  /\ swaps' = Remove(swaps, s)
       /\ SendConfirmed("err")
            => /\ tx'.pc = "done"
               /\ ~tx'.success
               /\ tx'.attempts = tx.attempts
      ]_vars

\* a live Buy Executor has no purchase in flight and has published nothing,
\* and a sendTransaction call whose first send went through has ended in failure
C16_Witness ==
    /\ ~buyDRY_RUN
    /\ nextTx > 0
    /\ swaps = <<>>
    /\ successfulBuys = {}
    /\ store = NothingPersisted
    /\ tx.pc = "done"
    /\ ~tx.success
    /\ tx.attempts = 1
    /\ tx.lastError = NoError

\* C17 (retry only on retryable errors): a send attempt that fails is followed
\* by a backoff only when its error is a timeout, a block height exceeded or a
\* rate limit; after any other error the call returns a failure at once, and
\* a call that has returned makes no further attempt.
C17_RetryOnlyRetryable ==
    [][/\ \A message \in ErrorMessages :
            LET classified == message \cap {"timeout", "block height exceeded",
                                            "rate limited"} # {}
            IN SendAttempt(FALSE, message)
                  => /\ tx'.attempts = tx.attempts + 1
                     /\ tx'.pc \in {"wait", "done"}
                     /\ tx'.pc = "wait" => classified
                     /\ ~classified => (tx'.pc = "done" /\ ~tx'.success)
       /\ (tx.pc = "done" /\ tx' # tx) => (tx'.pc = "prepare" /\ tx'.attempts = 0)
      ]_vars

\* a call has retried, then failed on an error that is not retryable, with
\* retries left
C17_Witness ==
    /\ tx.pc = "done"
    /\ ~tx.success
    /\ tx.lastError = {"insufficient funds"}
    /\ tx.retryCount > 0
    /\ tx.retryCount < tx.maxRetries

C22_OnlyValidPoolsEmitted ==
    \A poolData \in newPools :
        /\ isPublicKey(poolData.baseMint)
        /\ isPublicKey(poolData.quoteMint)
        /\ isPublicKey(poolData.lpAddress)
        /\ poolData.lpAddress # RAYDIUM_LP_V4_PROGRAM_ID

\* C23 (no duplicate emission): a log entry is published on NEW_POOLS at most
\* once, and whatever subscriptions were set up, at most one Connection has a
\* log listener registered.
C23_AtMostOncePerEntry ==
    /\ logs.published <= 1
    /\ Cardinality(listeners) <= 1

\* C24 (loss of the stream is never permanent): while the manager that was
\* connected is not connected, a reconnect() of it is waiting or connecting.
C24_NeverStopsRetrying ==
    (wsm.healthCheck /\ ~wsm.isConnected) => reconnects # <<>>

\* C25 (exponential, bounded backoff): the delay before the n-th consecutive
\* reconnect attempt is 1000 ms doubled n - 1 times and at most 30000 ms, and
\* a successful connection sets the attempt counter to zero.
C25_BackoffDoublesToCap ==
    /\ \A r \in DOMAIN reconnects :
          /\ reconnects[r].delay <= RECONNECT_CAP_MS
          /\ reconnects[r].delay =
                Min(RECONNECT_BASE_MS * 2 ^ (reconnects[r].attempt - 1), RECONNECT_CAP_MS)
    /\ (wsm.isConnected /\ reconnects = <<>>) => wsm.reconnectAttempt = 0

\* C26 (skip and continue): when the price fetch for a Position fails, or the
\* publish, the del or the incr of its sell throws, the tick goes on with the
\* entries after it, the step changes neither the store nor the working set,
\* and the Position is as it was when the tick took it: still in the store
\* as long as it is in the working set.
C26_SkipAndContinue ==
    [][\A t \in DOMAIN ticks :
          (\/ \E p \in Prices : TickPrice(t, FALSE, p)
           \/ TickSimSell(t, TRUE, FALSE)
           \/ TickLiveSell(t, TRUE, FALSE)
           \/ TickDel(t, FALSE)
           \/ TickIncr(t, FALSE))
             => /\ ticks'[t].pc = "iter"
                /\ ticks'[t].idx = ticks[t].idx
                /\ store' = store
                /\ activePositions' = activePositions
                /\ IndexOf(activePositions', ticks[t].position.baseMint) # 0
                      => store'[ticks[t].position.baseMint] # NoPosition
      ]_vars

\* C27 (no blocking across Positions): while the sell or the price fetch of
\* one invocation is in flight, the timer can fire the next tick, and every
\* other invocation that is between two entries can take its next entry.
C27_NoBlocking ==
    \A t \in DOMAIN ticks :
        ticks[t].pc \in SellPcs \cup {"price"}
           => /\ (smPhase = "running" /\ Len(ticks) < MaxTicks /\ Len(activePositions) > 0)
                    => ENABLED TickStart
              /\ \A u \in DOMAIN ticks :
                    ticks[u].pc = "iter" => ENABLED (\E p \in Prices : TickIter(u, p))

\* the sells of two different baseMints are in flight at the same time
C27_Witness ==
    \E t \in DOMAIN ticks, u \in DOMAIN ticks :
        /\ ticks[t].pc \in {"simSell", "liveSell"}
        /\ ticks[u].pc \in {"simSell", "liveSell"}
        /\ ticks[t].position.baseMint # ticks[u].position.baseMint

\* C28 (graceful shutdown): after the signal no tick starts and no message
\* is taken, and when the process exits, no sell is in flight or between its
\* publish and its updates of the store and the working set.
C28_GracefulShutdown ==
    [][/\ smPhase \in {"stopping", "exited"}
            => /\ Len(ticks') <= Len(ticks)
               /\ pendingBuys' \subseteq pendingBuys
       /\ ProcessExit => \A t \in DOMAIN ticks : ticks[t].pc \notin SellPcs
      ]_vars

\* C29 (unknown payloads are dropped): a message on SUCCESSFUL_BUYS that is no
\* buyData creates or changes no Position, in the store or in the working
\* set, starts no price fetch and publishes nothing.
C29_UnknownPayloadDropped ==
    [][\A payload \in UnknownPayloads, p \in Prices, st \in BOOLEAN :
          processUnknownPayload(payload, p, st)
             => /\ store' = store
                /\ activePositions' = activePositions
                /\ pendingBuys' = pendingBuys
                /\ successfulSells' = successfulSells
      ]_vars

\* C30 (extreme risk is rejected): the Token Filter publishes no BuyCandidate
\* for a pool whose mint account has been read with an extreme risk level.
C30_ExtremeRiskRejected ==
    [][\A ok \in BOOLEAN :
          (FilterPublish(ok, TRUE) /\ potentialBuys' # potentialBuys)
             => filter.riskLevel # "extreme"
      ]_vars

\* C31 (risk classification), as stated: the level analyzeTokenRisk returns is
\* always one of safe, low, medium, high, extreme, and a mint whose red flags
\* include those of another mint is never given a lower level than it.
C31_AlwaysClassified ==
    [][\A rpc \in RpcOutcomes, data \in MintAccounts :
          ValidateRisk(rpc, data)
             => LET level == validation'.riskAssessment.riskLevel
                    rank == [l \in {"safe", "low", "medium", "high", "extreme"} |->
                               CASE l = "safe" -> 0 [] l = "low" -> 1 [] l = "medium" -> 2
                                 [] l = "high" -> 3 [] l = "extreme" -> 4]
                IN /\ level \in DOMAIN rank
                   /\ rpc = "account"
                         => \A smaller \in MintAccounts :
                               RiskFactors(smaller) \subseteq RiskFactors(data)
                                  => rank[RiskLevel(smaller)] <= rank[level]
      ]_vars

\* C31, amended: an assessment whose account read returned is classified as
\* low, medium, high or extreme, by the count of the red flags (none low, one
\* medium, two high, more than two or a blacklisted authority extreme; a mint
\* account that does not exist extreme), and never lower than a mint with
\* fewer of the same flags; an assessment whose read threw has the level
\* unknown and is risky.
C31_ClassifiedUnlessFailed ==
    [][\A rpc \in RpcOutcomes, data \in MintAccounts :
          ValidateRisk(rpc, data)
             => LET assessment == validation'.riskAssessment
                    level == assessment.riskLevel
                    rank == [l \in {"safe", "low", "medium", "high", "extreme"} |->
                               CASE l = "safe" -> 0 [] l = "low" -> 1 [] l = "medium" -> 2
                                 [] l = "high" -> 3 [] l = "extreme" -> 4]
                    flag(b) == IF b THEN 1 ELSE 0
                    flags == flag(data.mintAuthority # "none") + flag(data.freezeAuthority)
                             + flag(data.decimals < 6)
                             + flag(data.mintAuthority = "blacklisted")
                IN /\ rpc = "throws" => (level = "unknown" /\ assessment.isRisky)
                   /\ rpc = "missing" => (level = "extreme" /\ assessment.isRisky)
                   /\ rpc = "account"
                         => /\ level \in {"low", "medium", "high", "extreme"}
                            /\ level = "low" <=> flags = 0
                            /\ level = "medium" <=> flags = 1
                            /\ level = "high"
                                  <=> (flags = 2 /\ data.mintAuthority # "blacklisted")
                            /\ level = "extreme"
                                  <=> (flags > 2 \/ data.mintAuthority = "blacklisted")
                            /\ \A smaller \in MintAccounts :
                                  RiskFactors(smaller) \subseteq RiskFactors(data)
                                     => rank[RiskLevel(smaller)] <= rank[level]
      ]_vars

\* an assessment has classified a mint with two red flags as high
C31_Witness ==
    /\ validation.pc = "done"
    /\ ~validation.failed
    /\ validation.riskAssessment.riskLevel = "high"

\* C32 (re-evaluation does not mutate the record): a step of the Sell Manager
\* leaves every Position that exists as it is, in the store and in the working
\* set, or deletes it; and it deletes only in the clean-up of a sell that
\* succeeded.
C32_OnlyDeletion ==
    [][(UNCHANGED buyVars /\ smPhase = "running" /\ smPhase' = "running")
          => \A m \in Mints :
                LET i == IndexOf(activePositions, m)
                    j == IndexOf(activePositions', m)
                    closing == \E t \in DOMAIN ticks :
                                  /\ ticks[t].pc \in {"del", "incr"}
                                  /\ ticks[t].position.baseMint = m
                IN /\ store[m] # NoPosition
                      => \/ store'[m] = store[m]
                         \/ store'[m] = NoPosition /\ closing
                   /\ i # 0
                      => \/ j # 0 /\ activePositions'[j] = activePositions[i]
                         \/ j = 0 /\ closing
      ]_vars

\* C33 (the store is authoritative over the notification): when a
\* PositionOpened for a baseMint is published, the Position record of that
\* baseMint is in the store.
C33_RecordBeforeNotification ==
    [][\A b \in successfulBuys' \ successfulBuys : store'[b.baseMint] # NoPosition]_vars

\* C34 (subscribed whatever the order): once the startup load has returned,
\* the Sell Manager gets subscribed to SUCCESSFUL_BUYS, and a baseMint whose
\* PositionOpened is on the bus gets into the working set.
C34_EndsUpSubscribed ==
    /\ (smPhase = "running") ~> subscriber.subscribed
    /\ \A m \in CandidateMints :
          (smPhase = "running" /\ \E b \in successfulBuys : b.baseMint = m)
             ~> (IndexOf(activePositions, m) # 0)

\* C35 (a live Position is closed by a real sell only): the record of a
\* Position with isDryRun=false is deleted from the store, and its entry from
\* the working set, only when a real sell of its baseMint has been confirmed
\* and published, whatever the Sell Manager's DRY_RUN is.
C35_LiveClosedByRealSell ==
    [][\A t \in DOMAIN ticks :
          LET m == ticks[t].position.baseMint
              i == IndexOf(activePositions, m)
              soldLive == [baseMint |-> m, isDryRun |-> FALSE] \in successfulSells
          IN /\ (/\ TickDel(t, TRUE)
                 /\ store[m] # NoPosition
                 /\ ~ParseBool(store[m].isDryRun))
                   => soldLive
             /\ (/\ TickIncr(t, TRUE)
                 /\ i # 0
                 /\ ~activePositions[i].isDryRun)
                   => soldLive
      ]_vars

\* C36 (a closed Position is not resurrected): once the Position of the one
\* purchase made has been sold and deleted from the store and from the working
\* set, a delivery of its PositionOpened leaves both without it, and starts
\* no price fetch for it.
C36_NoResurrection ==
    [][\A b \in successfulBuys, p \in Prices, st \in BOOLEAN :
          (/\ nextTx = 1
           /\ swaps = <<>>
           /\ \E sold \in successfulSells : sold.baseMint = b.baseMint
           /\ store[b.baseMint] = NoPosition
           /\ IndexOf(activePositions, b.baseMint) = 0
           /\ processSuccessfulBuy(b, p, st))
             => /\ store'[b.baseMint] = NoPosition
                /\ IndexOf(activePositions', b.baseMint) = 0
                /\ pendingBuys' = pendingBuys
      ]_vars

\* C37 (a buy price to compare with): every Position in the working set,
\* whether a PositionOpened or the startup load has put it there, has a
\* positive buyPrice.
C37_PositiveBuyPrice ==
    \A i \in DOMAIN activePositions : activePositions[i].buyPrice > 0

\* C38 (no drift between the two views): when no purchase, no message handler
\* and no tick is in progress, and every PositionOpened on the bus has been
\* handled or its Position sold, the working set holds exactly the baseMints
\* that have a record in the store, each with the buyPrice, isDryRun and
\* tokenAmount of its record (a buyPrice that was never set counting as the 0
\* the record is read as).
C38_NoDrift ==
    (/\ smPhase = "running" /\ swaps = <<>> /\ ticks = <<>> /\ pendingBuys = {}
     /\ \A b \in successfulBuys :
           \/ IndexOf(activePositions, b.baseMint) # 0
           \/ \E sold \in successfulSells : sold.baseMint = b.baseMint)
       => \A m \in Mints :
             LET i == IndexOf(activePositions, m)
             IN IF store[m] = NoPosition
                THEN i = 0
                ELSE /\ i # 0
                     /\ ParseNum(store[m].buyPrice)
                           = (IF activePositions[i].buyPrice = Undefined
                              THEN 0 ELSE activePositions[i].buyPrice)
                     /\ ParseBool(store[m].isDryRun) = activePositions[i].isDryRun
                     /\ ParseNum(store[m].tokenAmount) = activePositions[i].tokenAmount

\* C39 (PositionClosed only for a Position that ends up closed): when a
\* command of the clean-up fails after PositionClosed has been published, the
\* handling of the sell does not end with the Position still in the store or
\* in the working set.
C39_PublishedMeansClosed ==
    [][\A t \in DOMAIN ticks :
          LET m == ticks[t].position.baseMint
          IN (/\ \E sold \in successfulSells : sold.baseMint = m
              /\ (TickDel(t, FALSE) \/ TickIncr(t, FALSE))
              /\ ticks'[t].pc = "iter")
                => /\ store'[m] = NoPosition
                   /\ IndexOf(activePositions', m) = 0
      ]_vars

\* C40 (one subscription per program): whenever the manager is connected and
\* no reconnect() is in progress, the program the owner has subscribed to has
\* one entry in this.subscriptions and one onLogs listener on the current
\* Connection, so that a log notification invokes the callback once.  (The
\* listeners left on replaced Connections are not counted here.)
C40_ExactlyOneSubscription ==
    (wsm.isConnected /\ reconnects = <<>>)
       => /\ logSubs.subscriptions = 1
          /\ logSubs.onConnection = 1

====
